---- MODULE Spec2Model ----
(***************************************************************************)
(* The code-indexing pipeline of x-pack/plugins/code: LspIndexer           *)
(* (lsp_indexer.ts) driving the generic indexing lifecycle of              *)
(* AbstractIndexer and writing through BatchIndexHelper into the search    *)
(* backend.  LspIndexer is translated from the source; AbstractIndexer,    *)
(* BatchIndexHelper and the external collaborators are modelled from the   *)
(* specification (sections 4.1, 4.2 and 6).                                *)
(*                                                                         *)
(* One action is one continuation of the asynchronous code: the statements *)
(* that run between two awaits.  cancel() and the backend's bulk responses *)
(* interleave between continuations.                                       *)
(***************************************************************************)
EXTENDS Bags, FiniteSets, Integers, Sequences, TLC

\* ------------------------------------------------------------------ bounds
MaxSymbols == 1
MaxReferences == 1
BatchSize == 2
MaxCancels == 2
MaxRuns == 2
MaxActions == 2

\* --------------------------------------------------------------- constants
RepoUri == "repo"

\* The run's target revision, and the revisions the head of the repository
\* can point to.
Revision == "target-rev"
Heads == {Revision, "later-rev"}

SymbolIndexName(repoUri) == <<"symbol", repoUri>>
ReferenceIndexName(repoUri) == <<"reference", repoUri>>
DocumentIndexName(repoUri) == <<"document", repoUri>>

Indices == {SymbolIndexName(RepoUri), ReferenceIndexName(RepoUri), DocumentIndexName(RepoUri)}

RepositoryReservedField == "repository"
RepositoryGitStatusReservedField == "repository_git_status"
RepositoryLspIndexStatusReservedField == "repository_lsp_index_status"
RepositoryDeleteStatusReservedField == "repository_delete_status"

ReservedFields ==
  { RepositoryReservedField, RepositoryGitStatusReservedField,
    RepositoryLspIndexStatusReservedField, RepositoryDeleteStatusReservedField }

\* ------------------------------------------------- the repository snapshot
\* The file trees the version-control snapshot provider can return.
Trees ==
  { << >>,
    << "a.ts" >>,
    << "a.ts", "notes.md", "LICENSE", "b.ts" >> }

detectLanguageByFilename(filePath) ==
  CASE filePath \in {"a.ts", "b.ts", "old.ts"} -> "typescript"
    [] filePath = "notes.md" -> "markdown"
    [] OTHER -> ""

supportLanguage(lang) == lang \in {"typescript"}

WorkspaceDir == "/workspace/repo/"

isSymbolicLink(filePath) == filePath = "b.ts"
readLink(filePath) == <<"link-target-of", filePath>>
readFile(filePath) == <<"bytes-of", filePath>>

\* --------------------------------------------- language-analysis responses
\* kind "error": sendRequest rejects; "empty": no response or result = [];
\* "result": result[0] holds `symbols` symbols and `references` references.
Outcomes ==
  { [kind |-> "error", symbols |-> 0, references |-> 0],
    [kind |-> "empty", symbols |-> 0, references |-> 0] }
  \cup { [kind |-> "result", symbols |-> n, references |-> m] :
           n \in 0..MaxSymbols, m \in 0..MaxReferences }

NoOutcome == [kind |-> "none", symbols |-> 0, references |-> 0]

\* Two consecutive symbols of a file share a name (overloads), so that the
\* per-file name set can be smaller than the symbol list.
SymbolName(i) == (i + 1) \div 2

SymbolsOf(filePath, n) ==
  [i \in 1..n |-> [path |-> filePath, id |-> i, name |-> SymbolName(i)]]

ReferencesOf(filePath, m) ==
  [i \in 1..m |-> [path |-> filePath, id |-> i]]

\* ------------------------------------------------------------ search backend
\* A document of the documents collection: `fields` is the set of reserved
\* repository-level fields the document carries (none for a file document).
MarkerDocument(fields) ==
  [path |-> "", content |-> << >>, language |-> "", qnames |-> {}, fields |-> fields]

FileDocument(filePath, content, language, qnames) ==
  [path |-> filePath, content |-> content, language |-> language,
   qnames |-> qnames, fields |-> {}]

\* deleteByQuery bodies: match_all, and bool.must_not of `exists` clauses.
MatchAll == [must_not |-> {}]

RECURSIVE BagOfSeq(_)
BagOfSeq(s) ==
  IF s = << >> THEN EmptyBag ELSE SetToBag({Head(s)}) (+) BagOfSeq(Tail(s))

\* The entries of a collection that a symbol/reference query can see carry no
\* reserved field; only documents do.
FieldsOf(index, entry) ==
  IF index = DocumentIndexName(RepoUri) THEN entry.fields ELSE {}

Matches(index, entry, query) ==
  \A f \in query.must_not : f \notin FieldsOf(index, entry)

deleteByQuery(index, bag, query) ==
  LET keep == { e \in BagToSet(bag) : ~ Matches(index, e, query) }
  IN  [e \in keep |-> bag[e]]

SeedBackend ==
  [i \in Indices |->
     CASE i = SymbolIndexName(RepoUri) ->
            SetToBag({[path |-> "old.ts", id |-> 1, name |-> 1]})
       [] i = ReferenceIndexName(RepoUri) ->
            SetToBag({[path |-> "old.ts", id |-> 1]})
       [] OTHER ->
            SetToBag({ MarkerDocument({RepositoryReservedField}),
                       MarkerDocument({RepositoryGitStatusReservedField}),
                       MarkerDocument({RepositoryLspIndexStatusReservedField}),
                       MarkerDocument({RepositoryDeleteStatusReservedField}),
                       FileDocument("old.ts", readFile("old.ts"), "typescript", {1}) })]

\* ------------------------------------------------------------------- state
VARIABLES
  runId,           \* which run (LspIndexer instance) of (repoUri, revision)
  state,           \* lifecycle state of the run
  pc,              \* the continuation start() is suspended before
  thrown,          \* the error super.start() rejected with, or "none"
  result,          \* what start() delivered to its caller
  cancelled,       \* AbstractIndexer.cancelled
  batch,           \* BatchIndexHelper: queued writes per destination
  batchCancelled,  \* BatchIndexHelper.cancelled
  inflight,        \* bulk calls sent to the backend and not yet answered
  backend,         \* the collections of the search backend (bags)
  reqs,            \* the enumerated work items
  idx,             \* number of work items whose processing has started
  stats,           \* run-level IndexStats
  itemStats,       \* processRequest's stats
  symbolNames,     \* processRequest's symbolNames
  symbols,         \* symbols of the response not yet indexed
  references,      \* references of the response not yet indexed
  response,        \* the response of the current item
  content,         \* processRequest's content
  repoTree,        \* the file tree of the working copy
  head,            \* the revision the head of the repository points to
  unreliable,      \* the collaborator calls that can fail in this scenario
  analysis,        \* per file, the answer of the language-analysis service
  indexCalls,      \* history: index() calls of this run, per destination
  accepted,        \* history: writes the buffer accepted in this run
  finalFlushCalls, \* history: flush() calls made by start()'s finally
  cancelCalls,     \* history: cancel() calls
  firstCancel,     \* history: where the run was at the first cancel()
  cleanAttempted,  \* history: collections whose cleanup deletion returned
  cleanDone,       \* history: collections whose cleanup deletion succeeded
  cleanLog,        \* history: the cleanup deletions issued, in order
  readFailed,      \* history: some file read failed
  failedReads,     \* history: the work items (by position) whose file read failed
  walked,          \* history: the call of the enumeration that threw
  snapshot,        \* history: backend at the start of the second run
  lost,            \* history: per destination, the writes of failed bulk calls
  allActions,      \* the actions of the trigger / the actions getActions() returned
  embeddable,      \* the embeddable the actions are looked up for, if any
  compatibleActions, \* what Trigger.getCompatibleActions returned
  editorActions    \* EventEditor.actions after findActions

progVars ==
  << runId, state, pc, thrown, result, cancelled, batch, batchCancelled,
     inflight, backend, reqs, idx, stats, itemStats, symbolNames, symbols,
     references, response, content >>

uiVars == << allActions, embeddable, compatibleActions, editorActions >>

histVars ==
  << repoTree, head, uiVars, unreliable, analysis, indexCalls, accepted, finalFlushCalls, cancelCalls,
     firstCancel, cleanAttempted, cleanDone, cleanLog, readFailed, failedReads, walked, snapshot, lost >>

vars == << progVars, histVars >>

lifeVars == << runId, state, pc, thrown, result >>
loopVars == << reqs, idx, stats >>
itemVars == << itemStats, symbolNames, symbols, references, response, content >>
bufVars == << batch, batchCancelled, inflight >>
envVars == << repoTree, head, uiVars, unreliable, analysis >>
callVars == << indexCalls, accepted >>
cleanVars == << cleanAttempted, cleanDone, cleanLog >>
otherHist ==
  << finalFlushCalls, cancelCalls, firstCancel, readFailed, failedReads, walked, snapshot, lost >>

ZeroStats == [Symbol |-> 0, Reference |-> 0, File |-> 0]
EmptyBatch == [i \in Indices |-> << >>]
NoInflight == [i \in Indices |-> {}]
NoCalls == [i \in Indices |-> 0]
NoLost == [i \in Indices |-> EmptyBag]

\* The kinds of collaborator misbehaviour: a failing schema preparation,
\* working-copy walk, language analysis, file read, cleanup deletion or bulk
\* call, and a time-threshold flush.
Faults == {"schema", "walk", "lsp", "read", "clean", "bulk", "timer"}

\* The scenarios of a single run: the calls the run itself depends on can
\* fail (schema, walk, analysis, read) and the time threshold can pass; or
\* the cleanup deletions can fail; or the bulk calls can fail and the time
\* threshold can pass.  The run reads neither what the cleanup left in the
\* backend nor the answer of a bulk call, so the three do not interact.
Scenarios ==
  { Faults \ {"clean", "bulk"}, {"clean"}, {"bulk", "timer"} }

\* The answers a collaborator call of kind `fault` can give.
Answers(fault) == IF fault \in unreliable THEN BOOLEAN ELSE {TRUE}
Timers == IF "timer" \in unreliable THEN BOOLEAN ELSE {FALSE}

\* The answers textDocument/full can give: in the scenarios with overloads
\* also a result whose symbols are one more than MaxSymbols, so that two of
\* them share a name.
Results ==
  Outcomes \cup IF "overloads" \in unreliable
                THEN { [kind |-> "result", symbols |-> MaxSymbols + 1,
                        references |-> 0] }
                ELSE {}
NoCancel == [pc |-> "never", idx |-> 0]
NoSnapshot ==
  [taken |-> FALSE, quiet |-> FALSE, completed |-> FALSE, backend |-> SeedBackend]

AllPaths == {"a.ts", "b.ts", "notes.md", "LICENSE"}

\* The embeddable an action lookup is made for: none, or one with an id and
\* a type.
EmbeddableIds == {"", "panel-1", "panel-2"}
EmbeddableTypes == {"", "visualization", "search"}

NoEmbeddable == [present |-> FALSE, id |-> "", type |-> ""]

Embeddables ==
  { NoEmbeddable }
  \cup { [present |-> TRUE, id |-> i, type |-> t] :
           i \in EmbeddableIds \ {""}, t \in EmbeddableTypes \ {""} }

\* The actions: bound to an embeddable id, to an embeddable type, to both
\* or to neither.
Actions ==
  { [embeddableId |-> i, embeddableType |-> t] :
      i \in EmbeddableIds, t \in EmbeddableTypes }

ActionLists == UNION { [1..n -> Actions] : n \in 0..MaxActions }

NotComputed == [done |-> FALSE, actions |-> << >>]

\* No action lookup is made.
NoLookup ==
  /\ allActions = << >>
  /\ embeddable = NoEmbeddable
  /\ compatibleActions = NotComputed
  /\ editorActions = NotComputed

Constructed ==
  /\ runId = 1
  /\ state = "Created"
  /\ pc = "idle"
  /\ thrown = "none"
  /\ result = "none"
  /\ cancelled = FALSE
  /\ batch = EmptyBatch
  /\ batchCancelled = FALSE
  /\ inflight = NoInflight
  /\ backend = SeedBackend
  /\ reqs = << >>
  /\ idx = 0
  /\ stats = ZeroStats
  /\ itemStats = ZeroStats
  /\ symbolNames = {}
  /\ symbols = << >>
  /\ references = << >>
  /\ response = NoOutcome
  /\ content = << >>
  /\ analysis = [p \in AllPaths |-> NoOutcome]
  /\ indexCalls = NoCalls
  /\ accepted = NoCalls
  /\ finalFlushCalls = 0
  /\ cancelCalls = 0
  /\ firstCancel = NoCancel
  /\ cleanAttempted = {}
  /\ cleanDone = {}
  /\ cleanLog = << >>
  /\ readFailed = FALSE
  /\ failedReads = {}
  /\ walked = "none"
  /\ snapshot = NoSnapshot
  /\ lost = NoLost

Init ==
  /\ repoTree \in Trees
  /\ head = Revision
  /\ unreliable \in Scenarios
  /\ Constructed
  /\ NoLookup

\* Re-indexing scenario: one file, and every collaborator call succeeds.
InitReindex ==
  /\ repoTree = << "a.ts" >>
  /\ head = Revision
  /\ unreliable = {}
  /\ Constructed
  /\ NoLookup

\* -------------------------------------------------------- BatchIndexHelper
QueuedCount(b) ==
  Len(b[SymbolIndexName(RepoUri)]) + Len(b[ReferenceIndexName(RepoUri)])
    + Len(b[DocumentIndexName(RepoUri)])

\* One bulk call per destination with queued writes.
Bulks(b, awaited) ==
  [i \in Indices |->
     IF b[i] = << >> THEN {}
     ELSE {[body |-> b[i], awaited |-> awaited, run |-> runId]}]

Send(b, awaited) == [i \in Indices |-> inflight[i] \cup Bulks(b, awaited)[i]]

\* flush(): nothing queued or cancelled: nothing is sent; otherwise every
\* group is sent as a bulk call and the buffer is left empty.  `awaited`
\* tells whether the caller waits for the acknowledgment.
BatchFlush(awaited) ==
  IF QueuedCount(batch) = 0 \/ batchCancelled
  THEN UNCHANGED << batch, inflight >>
  ELSE /\ inflight' = Send(batch, awaited)
       /\ batch' = EmptyBatch

\* Mutant: an automatic flush sends the queue and does not empty it.
BatchIndex_keepsQueue(index, body, timer) ==
  /\ indexCalls' = [indexCalls EXCEPT ![index] = @ + 1]
  /\ IF batchCancelled
     THEN UNCHANGED << batch, inflight, accepted >>
     ELSE LET queued == [batch EXCEPT ![index] = Append(@, body)] IN
          /\ accepted' = [accepted EXCEPT ![index] = @ + 1]
          /\ batch' = queued
          /\ IF QueuedCount(queued) >= BatchSize \/ timer
             THEN inflight' = Send(queued, TRUE)
             ELSE UNCHANGED inflight

\* index(destination, payload): a no-op once cancelled; otherwise the write
\* is queued, and when the size bound is reached or the time threshold has
\* passed (`timer`) the buffer is flushed and index() waits for that flush.
BatchIndex(index, body, timer) ==
  /\ indexCalls' = [indexCalls EXCEPT ![index] = @ + 1]
  /\ IF batchCancelled
     THEN UNCHANGED << batch, inflight, accepted >>
     ELSE LET queued == [batch EXCEPT ![index] = Append(@, body)] IN
          /\ accepted' = [accepted EXCEPT ![index] = @ + 1]
          /\ IF QueuedCount(queued) >= BatchSize \/ timer
             THEN /\ inflight' = Send(queued, TRUE)
                  /\ batch' = EmptyBatch
             ELSE /\ batch' = queued
                  /\ UNCHANGED inflight

\* cancel() of the buffer: the queued writes are discarded and no later
\* write is accepted.
BatchCancel ==
  /\ batchCancelled' = TRUE
  /\ batch' = EmptyBatch

\* The promise of the index() call the run awaits has settled: no bulk call
\* that index() waits for is unanswered.
IndexSettled ==
  \A i \in Indices : \A b \in inflight[i] : ~ (b.awaited /\ b.run = runId)

\* Mutant: a failed bulk call is sent again.
BulkResponse_retry ==
  \E i \in Indices : \E b \in inflight[i] : \E ok \in Answers("bulk") :
    /\ inflight' = IF ok THEN [inflight EXCEPT ![i] = @ \ {b}] ELSE inflight
    /\ backend' = IF ok THEN [backend EXCEPT ![i] = @ (+) BagOfSeq(b.body)]
                        ELSE backend
    /\ lost' = IF ok THEN lost ELSE [lost EXCEPT ![i] = @ (+) BagOfSeq(b.body)]
    /\ UNCHANGED << lifeVars, cancelled, batchCancelled, batch, loopVars,
                    itemVars, envVars, callVars, cleanVars, finalFlushCalls,
                    cancelCalls, firstCancel, readFailed, failedReads, walked,
                    snapshot >>

\* The backend answers one bulk call: its writes are stored, or the call
\* fails and the batch is lost (logged, not retried).
BulkResponse ==
  \E i \in Indices : \E b \in inflight[i] : \E ok \in Answers("bulk") :
    /\ inflight' = [inflight EXCEPT ![i] = @ \ {b}]
    /\ backend' = IF ok THEN [backend EXCEPT ![i] = @ (+) BagOfSeq(b.body)]
                        ELSE backend
    /\ lost' = IF ok THEN lost ELSE [lost EXCEPT ![i] = @ (+) BagOfSeq(b.body)]
    /\ UNCHANGED << lifeVars, cancelled, batchCancelled, batch, loopVars,
                    itemVars, envVars, callVars, cleanVars, finalFlushCalls,
                    cancelCalls, firstCancel, readFailed, failedReads, walked,
                    snapshot >>

\* -------------------------------------------- AbstractIndexer: the lifecycle
aggregateIndexStats(total, inc) ==
  [Symbol |-> total.Symbol + inc.Symbol,
   Reference |-> total.Reference + inc.Reference,
   File |-> total.File + inc.File]

\* start(): Created -> PreparingIndices; the schema preparation is requested.
SuperStart ==
  /\ pc = "idle"
  /\ state' = "PreparingIndices"
  /\ pc' = "prepareIndex"
  /\ UNCHANGED << runId, thrown, result, cancelled, bufVars, backend, loopVars,
                  itemVars, histVars >>

\* The creation specifications have been applied, or could not be: a failed
\* schema preparation is fatal to the run.  Then the cleanup is requested.
PrepareIndex ==
  /\ pc = "prepareIndex"
  /\ \E ok \in Answers("schema") :
       IF ok
       THEN /\ pc' = "cleanSymbols"
            /\ UNCHANGED << state, thrown >>
       ELSE /\ state' = "Failed"
            /\ thrown' = "schema"
            /\ pc' = "superDone"
  /\ UNCHANGED << runId, result, cancelled, bufVars, backend, loopVars,
                  itemVars, histVars >>

\* ------------------------------------------------------ LspIndexer.cleanIndex
SymbolCleanQuery == MatchAll
ReferenceCleanQuery == MatchAll
\* Mutant: the delete-status marker is missing from the must_not list.
DocumentCleanQuery_noDeleteStatus ==
  [must_not |-> { RepositoryReservedField, RepositoryGitStatusReservedField,
                  RepositoryLspIndexStatusReservedField }]

DocumentCleanQuery ==
  [must_not |-> { RepositoryReservedField, RepositoryGitStatusReservedField,
                  RepositoryLspIndexStatusReservedField,
                  RepositoryDeleteStatusReservedField }]

\* Mutant: a deletion is not try/caught: its failure rejects cleanIndex and
\* with it the run.
CleanStep_noCatch(at, index, query, next) ==
  /\ pc = at
  /\ \E ok \in Answers("clean") :
       /\ backend' = IF ok
                        THEN [backend EXCEPT ![index] = deleteByQuery(index, @, query)]
                        ELSE backend
       /\ cleanDone' = IF ok THEN cleanDone \cup {index} ELSE cleanDone
       /\ pc' = IF ok THEN next ELSE "superDone"
       /\ thrown' = IF ok THEN thrown ELSE "cleanup"
       /\ state' = IF ~ ok THEN "Failed"
                   ELSE IF next = "prepareRequests" THEN "EnumeratingRequests"
                   ELSE state
  /\ cleanAttempted' = cleanAttempted \cup {index}
  /\ cleanLog' = Append(cleanLog, index)
  /\ UNCHANGED << runId, result, cancelled, bufVars, loopVars, itemVars,
                  envVars, callVars, otherHist >>

\* One deleteByQuery of cleanIndex has answered: it deleted the matching
\* entries, or it failed and the failure is logged.
CleanStep(at, index, query, next) ==
  /\ pc = at
  /\ \E ok \in Answers("clean") :
       /\ backend' = IF ok
                        THEN [backend EXCEPT ![index] = deleteByQuery(index, @, query)]
                        ELSE backend
       /\ cleanDone' = IF ok THEN cleanDone \cup {index} ELSE cleanDone
  /\ cleanAttempted' = cleanAttempted \cup {index}
  /\ cleanLog' = Append(cleanLog, index)
  /\ pc' = next
  /\ state' = IF next = "prepareRequests" THEN "EnumeratingRequests" ELSE state
  /\ UNCHANGED << runId, thrown, result, cancelled, bufVars, loopVars, itemVars,
                  envVars, callVars, otherHist >>

\* Mutant: the deletion of the references is left out.
cleanIndex_skipReferences ==
  \/ CleanStep("cleanSymbols", SymbolIndexName(RepoUri), SymbolCleanQuery,
               "cleanDocuments")
  \/ CleanStep("cleanDocuments", DocumentIndexName(RepoUri), DocumentCleanQuery,
               "prepareRequests")

cleanIndex ==
  \/ CleanStep("cleanSymbols", SymbolIndexName(RepoUri), SymbolCleanQuery,
               "cleanReferences")
  \/ CleanStep("cleanReferences", ReferenceIndexName(RepoUri), ReferenceCleanQuery,
               "cleanDocuments")
  \/ CleanStep("cleanDocuments", DocumentIndexName(RepoUri), DocumentCleanQuery,
               "prepareRequests")

\* ------------------------------------------------ LspIndexer.prepareRequests
\* What openWorkspace and fileTree do: `error` names the call that throws.
Walks(tree) ==
  { [error |-> "", tree |-> tree] }
  \cup IF "walk" \in unreliable
       THEN { [error |-> "openWorkspace", tree |-> << >>],
              [error |-> "fileTree", tree |-> << >>] }
       ELSE {}

\* workspaceRevision: what openWorkspace(repoUri, 'head') resolved.
WorkspaceRevision == head

LspIndexRequest(filePath) ==
  [repoUri |-> RepoUri, localRepoPath |-> WorkspaceDir, filePath |-> filePath,
   revision |-> WorkspaceRevision]

\* Mutant: a detected language is enough, supported or not.
Supported_anyLanguage(filePath) ==
  detectLanguageByFilename(filePath) # ""

Supported(filePath) ==
  LET lang == detectLanguageByFilename(filePath)
  IN  lang # "" /\ supportLanguage(lang)

\* Mutant: the catch block logs the error and does not rethrow it.
prepareRequests_swallow(walk) ==
  IF walk.error # ""
  THEN [threw |-> FALSE, reqs |-> << >>]
  ELSE LET kept == SelectSeq(walk.tree, Supported)
       IN  [threw |-> FALSE,
            reqs |-> [i \in 1..Len(kept) |-> LspIndexRequest(kept[i])]]

prepareRequests(walk) ==
  IF walk.error # ""
  THEN [threw |-> TRUE, reqs |-> << >>]
  ELSE LET kept == SelectSeq(walk.tree, Supported)
       IN  [threw |-> FALSE,
            reqs |-> [i \in 1..Len(kept) |-> LspIndexRequest(kept[i])]]

\* EnumeratingRequests: the work items are obtained, or the enumeration
\* failure is surfaced and the run is Failed.
Enumerate ==
  /\ pc = "prepareRequests"
  /\ \E walk \in Walks(repoTree) :
       /\ walked' = walk.error
       /\ LET r == prepareRequests(walk) IN
          IF r.threw
          THEN /\ state' = "Failed"
               /\ thrown' = "enumeration"
               /\ pc' = "superDone"
               /\ UNCHANGED reqs
          ELSE /\ state' = "Processing"
               /\ reqs' = r.reqs
               /\ pc' = "loop"
               /\ UNCHANGED thrown
  /\ UNCHANGED << runId, result, cancelled, bufVars, backend, idx, stats,
                  itemVars, envVars, callVars, cleanVars, finalFlushCalls,
                  cancelCalls, firstCancel, readFailed, failedReads, snapshot, lost >>

\* -------------------------------------------- AbstractIndexer: the item loop
\* Mutant: the loop does not look at the cancellation flag.
Loop_noCancelCheck ==
  /\ pc = "loop"
  /\ IF idx = Len(reqs)
     THEN /\ state' = "Completed"
          /\ pc' = "superDone"
          /\ UNCHANGED << idx, itemStats, symbolNames >>
     ELSE /\ idx' = idx + 1
          /\ itemStats' = ZeroStats
          /\ symbolNames' = {}
          /\ pc' = "lspRequest"
          /\ UNCHANGED state
  /\ UNCHANGED << runId, thrown, result, cancelled, bufVars, backend, reqs,
                  stats, symbols, references, response, content, histVars >>

\* No item left: the loop exits normally, Completed.  Otherwise the
\* cancellation flag is checked before the item.  Found set: Cancelled.
\* Else processRequest is called for the item; it runs to its first await,
\* the language-analysis request.
Loop ==
  /\ pc = "loop"
  /\ IF idx = Len(reqs)
     THEN /\ state' = "Completed"
          /\ pc' = "superDone"
          /\ UNCHANGED << idx, itemStats, symbolNames >>
     ELSE IF cancelled
     THEN /\ state' = "Cancelled"
          /\ pc' = "superDone"
          /\ UNCHANGED << idx, itemStats, symbolNames >>
     ELSE /\ idx' = idx + 1
          /\ itemStats' = ZeroStats
          /\ symbolNames' = {}
          /\ pc' = "lspRequest"
          /\ UNCHANGED state
  /\ UNCHANGED << runId, thrown, result, cancelled, bufVars, backend, reqs,
                  stats, symbols, references, response, content, histVars >>

\* ------------------------------------------------ LspIndexer.processRequest
request == reqs[idx]

\* Mutant: no try/catch around the request: an error rejects processRequest.
LspResponse_noCatch ==
  /\ pc = "lspRequest"
  /\ \E out \in Results :
       /\ out.kind = "result" \/ "lsp" \in unreliable
       /\ analysis[request.filePath] \in {NoOutcome, out}
       /\ analysis' = [analysis EXCEPT ![request.filePath] = out]
       /\ response' = out
       /\ IF out.kind = "result"
          THEN /\ symbols' = SymbolsOf(request.filePath, out.symbols)
               /\ references' = ReferencesOf(request.filePath, out.references)
               /\ pc' = "indexSymbol"
          ELSE /\ symbols' = << >>
               /\ references' = << >>
               /\ pc' = IF out.kind = "error" THEN "loop" ELSE "readFile"
  /\ UNCHANGED << runId, state, thrown, result, cancelled, bufVars, backend,
                  loopVars, itemStats, symbolNames, content, repoTree, head, uiVars,
                  unreliable, callVars, cleanVars, otherHist >>

\* The answer to textDocument/full: an error or an empty result skips to the
\* file indexing; otherwise the symbols and references are to be indexed.
LspResponse ==
  /\ pc = "lspRequest"
  /\ \E out \in Results :
       /\ out.kind = "result" \/ "lsp" \in unreliable
       /\ analysis[request.filePath] \in {NoOutcome, out}
       /\ analysis' = [analysis EXCEPT ![request.filePath] = out]
       /\ response' = out
       /\ IF out.kind = "result"
          THEN /\ symbols' = SymbolsOf(request.filePath, out.symbols)
               /\ references' = ReferencesOf(request.filePath, out.references)
               /\ pc' = "indexSymbol"
          ELSE /\ symbols' = << >>
               /\ references' = << >>
               /\ pc' = "readFile"
  /\ UNCHANGED << runId, state, thrown, result, cancelled, bufVars, backend,
                  loopVars, itemStats, symbolNames, content, repoTree, head, uiVars,
                  unreliable, callVars,
                  cleanVars, otherHist >>

\* for (const symbol of symbols): the next index() call, or after the last
\* symbol stats.set(Symbol, symbols.length).
IndexSymbol ==
  /\ pc = "indexSymbol"
  /\ IF symbols = << >>
     THEN /\ itemStats' = [itemStats EXCEPT !.Symbol = response.symbols]
          /\ pc' = "indexReference"
          /\ UNCHANGED << batch, inflight, callVars >>
     ELSE /\ \E timer \in Timers :
               BatchIndex(SymbolIndexName(request.repoUri), Head(symbols), timer)
          /\ pc' = "afterSymbol"
          /\ UNCHANGED itemStats
  /\ UNCHANGED << runId, state, thrown, result, cancelled, batchCancelled,
                  backend, loopVars, symbolNames, symbols, references, response,
                  content, envVars, cleanVars, otherHist >>

\* Mutant: the symbol's name is not collected.
AfterSymbol_noName ==
  /\ pc = "afterSymbol"
  /\ IndexSettled
  /\ symbols' = Tail(symbols)
  /\ pc' = "indexSymbol"
  /\ UNCHANGED << runId, state, thrown, result, cancelled, bufVars, backend,
                  loopVars, itemStats, symbolNames, references, response,
                  content, histVars >>

\* index() has returned: symbolNames.add(symbol.symbolInformation.name).
AfterSymbol ==
  /\ pc = "afterSymbol"
  /\ IndexSettled
  /\ symbolNames' = symbolNames \cup {Head(symbols).name}
  /\ symbols' = Tail(symbols)
  /\ pc' = "indexSymbol"
  /\ UNCHANGED << runId, state, thrown, result, cancelled, bufVars, backend,
                  loopVars, itemStats, references, response, content, histVars >>

\* for (const ref of references): the next index() call, or after the last
\* reference stats.set(Reference, references.length).
IndexReference ==
  /\ pc = "indexReference"
  /\ IF references = << >>
     THEN /\ itemStats' = [itemStats EXCEPT !.Reference = response.references]
          /\ pc' = "readFile"
          /\ UNCHANGED << batch, inflight, callVars >>
     ELSE /\ \E timer \in Timers :
               BatchIndex(ReferenceIndexName(request.repoUri), Head(references), timer)
          /\ pc' = "afterReference"
          /\ UNCHANGED itemStats
  /\ UNCHANGED << runId, state, thrown, result, cancelled, batchCancelled,
                  backend, loopVars, symbolNames, symbols, references, response,
                  content, envVars, cleanVars, otherHist >>

AfterReference ==
  /\ pc = "afterReference"
  /\ IndexSettled
  /\ references' = Tail(references)
  /\ pc' = "indexReference"
  /\ UNCHANGED << runId, state, thrown, result, cancelled, bufVars, backend,
                  loopVars, itemStats, symbolNames, symbols, response, content,
                  histVars >>

detectLanguage(filePath, bytes) == detectLanguageByFilename(filePath)

\* Mutant: the link is followed: readFile whatever lstat says.
ReadFile_followsLink ==
  /\ pc = "readFile"
  /\ \E ok \in Answers("read") :
       IF ok
       THEN /\ content' = readFile(request.filePath)
            /\ pc' = "indexDocument"
            /\ UNCHANGED << readFailed, failedReads >>
       ELSE /\ pc' = "loop"
            /\ readFailed' = TRUE
            /\ failedReads' = failedReads \cup {idx}
            /\ UNCHANGED content
  /\ UNCHANGED << runId, state, thrown, result, cancelled, bufVars, backend,
                  loopVars, itemStats, symbolNames, symbols, references,
                  response, envVars, callVars, cleanVars, finalFlushCalls,
                  cancelCalls, firstCancel, walked, snapshot, lost >>

\* lstat, then readlink for a symbolic link and readFile otherwise, then
\* detectLanguage.  A failure rejects processRequest: the loop catches it,
\* the item adds nothing to the run's stats and the next item follows.
ReadFile ==
  /\ pc = "readFile"
  /\ \E ok \in Answers("read") :
       IF ok
       THEN /\ content' = IF isSymbolicLink(request.filePath)
                             THEN readLink(request.filePath)
                             ELSE readFile(request.filePath)
            /\ pc' = "indexDocument"
            /\ UNCHANGED << readFailed, failedReads >>
       ELSE /\ pc' = "loop"
            /\ readFailed' = TRUE
            /\ failedReads' = failedReads \cup {idx}
            /\ UNCHANGED content
  /\ UNCHANGED << runId, state, thrown, result, cancelled, bufVars, backend,
                  loopVars, itemStats, symbolNames, symbols, references,
                  response, envVars, callVars, cleanVars, finalFlushCalls,
                  cancelCalls, firstCancel, walked, snapshot, lost >>

Document ==
  [path |-> request.filePath,
   content |-> content,
   language |-> detectLanguage(request.filePath, content),
   qnames |-> symbolNames,
   fields |-> {}]

IndexDocument ==
  /\ pc = "indexDocument"
  /\ \E timer \in Timers :
       BatchIndex(DocumentIndexName(request.repoUri), Document, timer)
  /\ pc' = "afterDocument"
  /\ UNCHANGED << runId, state, thrown, result, cancelled, batchCancelled,
                  backend, loopVars, itemVars, envVars, cleanVars, otherHist >>

\* Mutant: index(DocumentIndexName, body) is called without await.
AfterDocument_notAwaited ==
  /\ pc = "afterDocument"
  /\ itemStats' = [itemStats EXCEPT !.File = 1]
  /\ stats' = aggregateIndexStats(stats, itemStats')
  /\ pc' = "loop"
  /\ UNCHANGED << runId, state, thrown, result, cancelled, bufVars, backend,
                  reqs, idx, symbolNames, symbols, references, response,
                  content, histVars >>

\* Mutant: stats.set(File, 1) is left out of the returned increment.
AfterDocument_noFileCount ==
  /\ pc = "afterDocument"
  /\ IndexSettled
  /\ stats' = aggregateIndexStats(stats, itemStats)
  /\ pc' = "loop"
  /\ UNCHANGED << runId, state, thrown, result, cancelled, bufVars, backend,
                  reqs, idx, itemStats, symbolNames, symbols, references,
                  response, content, histVars >>

\* index() has returned: stats.set(File, 1); return stats.  The loop merges
\* the increment into the run's IndexStats.
AfterDocument ==
  /\ pc = "afterDocument"
  /\ IndexSettled
  /\ itemStats' = [itemStats EXCEPT !.File = 1]
  /\ stats' = aggregateIndexStats(stats, itemStats')
  /\ pc' = "loop"
  /\ UNCHANGED << runId, state, thrown, result, cancelled, bufVars, backend,
                  reqs, idx, symbolNames, symbols, references, response,
                  content, histVars >>

processRequest ==
  \/ LspResponse
  \/ IndexSymbol
  \/ AfterSymbol
  \/ IndexReference
  \/ AfterReference
  \/ ReadFile
  \/ IndexDocument
  \/ AfterDocument

\* ------------------------------------------------ LspIndexer.start / cancel
\* Mutant: start() catches what super.start() threw and returns normally.
start_swallowsError ==
  /\ pc = "superDone"
  /\ IF ~ cancelled
     THEN /\ BatchFlush(FALSE)
          /\ finalFlushCalls' = finalFlushCalls + 1
     ELSE UNCHANGED << batch, inflight, finalFlushCalls >>
  /\ pc' = "done"
  /\ result' = "returned"
  /\ UNCHANGED << runId, state, thrown, cancelled, batchCancelled, backend,
                  loopVars, itemVars, envVars, callVars, cleanVars, cancelCalls,
                  firstCancel, readFailed, failedReads, walked, snapshot, lost >>

\* Mutant: the finally block flushes without looking at the cancellation.
start_flushAlways ==
  /\ pc = "superDone"
  /\ BatchFlush(FALSE)
  /\ finalFlushCalls' = finalFlushCalls + 1
  /\ pc' = "done"
  /\ result' = IF thrown # "none" THEN "thrown" ELSE "returned"
  /\ UNCHANGED << runId, state, thrown, cancelled, batchCancelled, backend,
                  loopVars, itemVars, envVars, callVars, cleanVars, cancelCalls,
                  firstCancel, readFailed, failedReads, walked, snapshot, lost >>

\* finally: unless cancelled, flush() is called and not awaited; then start()
\* settles with what super.start() returned or threw.
start ==
  /\ pc = "superDone"
  /\ IF ~ cancelled
     THEN /\ BatchFlush(FALSE)
          /\ finalFlushCalls' = finalFlushCalls + 1
     ELSE UNCHANGED << batch, inflight, finalFlushCalls >>
  /\ pc' = "done"
  /\ result' = IF thrown # "none" THEN "thrown" ELSE "returned"
  /\ UNCHANGED << runId, state, thrown, cancelled, batchCancelled, backend,
                  loopVars, itemVars, envVars, callVars, cleanVars, cancelCalls,
                  firstCancel, readFailed, failedReads, walked, snapshot, lost >>

\* Mutant: the buffer is cancelled and super.cancel() is forgotten.
cancel_noSuper ==
  /\ cancelCalls < MaxCancels
  /\ BatchCancel
  /\ cancelCalls' = cancelCalls + 1
  /\ firstCancel' = IF cancelCalls = 0 THEN [pc |-> pc, idx |-> idx]
                                       ELSE firstCancel
  /\ UNCHANGED << lifeVars, cancelled, inflight, backend, loopVars, itemVars,
                  envVars, callVars, cleanVars, finalFlushCalls, readFailed, failedReads,
                  walked, snapshot, lost >>

\* Mutant: cancel() also marks the run Cancelled at once.
cancel_marksCancelled ==
  /\ cancelCalls < MaxCancels
  /\ BatchCancel
  /\ cancelled' = TRUE
  /\ state' = "Cancelled"
  /\ cancelCalls' = cancelCalls + 1
  /\ firstCancel' = IF cancelCalls = 0 THEN [pc |-> pc, idx |-> idx]
                                       ELSE firstCancel
  /\ UNCHANGED << runId, pc, thrown, result, inflight, backend, loopVars,
                  itemVars, envVars, callVars, cleanVars, finalFlushCalls,
                  readFailed, failedReads, walked, snapshot, lost >>

\* cancel(): batchIndexHelper.cancel(); super.cancel().
cancel ==
  /\ cancelCalls < MaxCancels
  /\ BatchCancel
  /\ cancelled' = TRUE
  /\ cancelCalls' = cancelCalls + 1
  /\ firstCancel' = IF cancelCalls = 0 THEN [pc |-> pc, idx |-> idx]
                                       ELSE firstCancel
  /\ UNCHANGED << lifeVars, inflight, backend, loopVars, itemVars, envVars,
                  callVars, cleanVars, finalFlushCalls, readFailed, failedReads, walked,
                  snapshot, lost >>

\* ------------------------------------------------------- the caller's runs
\* The caller has seen the run finish and indexes the same (repoUri,
\* revision) again with a new LspIndexer.
Reindex ==
  /\ pc = "done"
  /\ runId < MaxRuns
  /\ runId' = runId + 1
  /\ state' = "Created"
  /\ pc' = "idle"
  /\ thrown' = "none"
  /\ result' = "none"
  /\ cancelled' = FALSE
  /\ batch' = EmptyBatch
  /\ batchCancelled' = FALSE
  /\ reqs' = << >>
  /\ idx' = 0
  /\ stats' = ZeroStats
  /\ itemStats' = ZeroStats
  /\ symbolNames' = {}
  /\ symbols' = << >>
  /\ references' = << >>
  /\ response' = NoOutcome
  /\ content' = << >>
  /\ indexCalls' = NoCalls
  /\ accepted' = NoCalls
  /\ finalFlushCalls' = 0
  /\ cleanAttempted' = {}
  /\ cleanDone' = {}
  /\ cleanLog' = << >>
  /\ snapshot' = [taken |-> TRUE, quiet |-> inflight = NoInflight,
                  completed |-> state = "Completed", backend |-> backend]
  /\ walked' = "none"
  /\ UNCHANGED << inflight, backend, envVars, cancelCalls, firstCancel,
                  readFailed, failedReads, lost >>

Run ==
  \/ SuperStart
  \/ PrepareIndex
  \/ cleanIndex
  \/ Enumerate
  \/ Loop
  \/ processRequest
  \/ start
  \/ BulkResponse

\* One run, with cancel() called at any moment.
Next == Run \/ cancel

Spec == Init /\ [][Next]_vars

\* Successive runs on the same (repoUri, revision), never cancelled.
NextReindex == Run \/ Reindex

SpecReindex == InitReindex /\ [][NextReindex]_vars

\* One run for (repoUri, Revision) with the head of the repository at the
\* target revision or at a later one.
InitRevision ==
  /\ repoTree \in Trees
  /\ head \in Heads
  /\ unreliable \in Scenarios
  /\ Constructed
  /\ NoLookup

SpecRevision == InitRevision /\ [][Next]_vars

\* One run over a working copy of one file, whose analysis can fail, come
\* back empty or return overloaded symbols, and whose read can fail.
InitItem ==
  /\ repoTree = << "a.ts" >>
  /\ head = Revision
  /\ unreliable = {"lsp", "read", "timer", "overloads"}
  /\ Constructed
  /\ NoLookup

SpecItem == InitItem /\ [][Next]_vars

\* Every call the run awaits is eventually answered, with a value or with an
\* error, and the continuation waiting for it is eventually scheduled: once
\* start() has been called, a step of the run that stays possible is taken.
Answered == WF_vars(pc # "idle" /\ Run)

\* The runs whose progress is checked: every scenario, on a working copy of
\* at most one supported file.
InitLive ==
  /\ repoTree \in { t \in Trees : Len(t) <= 1 }
  /\ head = Revision
  /\ unreliable \in Scenarios
  /\ Constructed
  /\ NoLookup

SpecLive == InitLive /\ [][Next]_vars /\ Answered

\* ------------------------------------ Trigger / EventEditor action lookup
indexerVars ==
  << progVars, repoTree, head, unreliable, analysis, callVars, cleanVars,
     otherHist >>

\* The filter callback of Trigger.getCompatibleActions: !remove.
TriggerKeeps(action) ==
  LET remove ==
        IF embeddable.present
        THEN IF action.embeddableId # ""
             THEN action.embeddableId # embeddable.id
             ELSE IF action.embeddableType # ""
             THEN action.embeddableType # embeddable.type
             ELSE FALSE
        ELSE FALSE
  IN  ~ remove

\* Mutant: the type is looked at before the id.
EditorKeeps_typeFirst(action) ==
  LET remove ==
        IF embeddable.present
        THEN IF action.embeddableType # ""
             THEN action.embeddableType # embeddable.type
             ELSE IF action.embeddableId # ""
             THEN action.embeddableId # embeddable.id
             ELSE FALSE
        ELSE FALSE
  IN  ~ remove

\* The filter callback of EventEditor.findActions: !remove.
EditorKeeps(action) ==
  LET remove ==
        IF embeddable.present
        THEN IF action.embeddableId # ""
             THEN action.embeddableId # embeddable.id
             ELSE IF action.embeddableType # ""
             THEN action.embeddableType # embeddable.type
             ELSE FALSE
        ELSE FALSE
  IN  ~ remove

\* return this.actions.filter(...)
getCompatibleActions ==
  /\ ~ compatibleActions.done
  /\ compatibleActions' =
       [done |-> TRUE, actions |-> SelectSeq(allActions, TriggerKeeps)]
  /\ UNCHANGED << indexerVars, allActions, embeddable, editorActions >>

\* this.actions = allActions.filter(...), once getActions() has answered.
findActions ==
  /\ ~ editorActions.done
  /\ editorActions' =
       [done |-> TRUE, actions |-> SelectSeq(allActions, EditorKeeps)]
  /\ UNCHANGED << indexerVars, allActions, embeddable, compatibleActions >>

\* Any list of at most MaxActions actions, looked up by a trigger and by
\* an event editor for any embeddable or for none.
InitActions ==
  /\ repoTree = << >>
  /\ head = Revision
  /\ unreliable = {}
  /\ Constructed
  /\ allActions \in ActionLists
  /\ embeddable \in Embeddables
  /\ compatibleActions = NotComputed
  /\ editorActions = NotComputed

NextActions == getCompatibleActions \/ findActions

SpecActions == InitActions /\ [][NextActions]_vars

\* ------------------------------------------------------------------ claims
Sym == SymbolIndexName(RepoUri)
Ref == ReferenceIndexName(RepoUri)
Doc == DocumentIndexName(RepoUri)

Finished == pc = "done"

\* The bulk calls of the current run that the backend has not answered.
Pending(i) == { b \in inflight[i] : b.run = runId }

\* C1: when start() has settled, the final flush was invoked exactly once if
\* the run ended Completed or Failed, and not at all if it ended Cancelled.
C1_FinalFlushExactlyOnce ==
  Finished =>
    /\ state \in {"Completed", "Failed"} => finalFlushCalls = 1
    /\ state = "Cancelled" => finalFlushCalls = 0

\* cancel() was not called before the finally block of start() ran.
NotCancelledBeforeFinally == firstCancel.pc \in {"never", "done"}

\* cancel() was called while the run was in progress: after start() was
\* called and before its finally block ran.
CancelledInProgress == firstCancel.pc \notin {"never", "idle", "done"}

\* C1 (amended): when start() has settled, the final flush was invoked
\* exactly once if cancel() had not been called before the finally block of
\* start(), and not at all if cancel() had been called while the run was in
\* progress or if the run ended Cancelled.
C1_FinalFlushUnlessCancelled ==
  Finished =>
    /\ NotCancelledBeforeFinally => finalFlushCalls = 1
    /\ CancelledInProgress => finalFlushCalls = 0
    /\ state = "Cancelled" => finalFlushCalls = 0

\* cancel() arrived while the last item was being processed: Completed, and
\* the final flush skipped.
C1_Witness ==
  /\ Finished
  /\ state = "Completed"
  /\ Len(reqs) = 1
  /\ firstCancel.pc = "lspRequest"
  /\ finalFlushCalls = 0

\* C2: when start() has settled on a run that was never cancelled, no write
\* of the run is still queued in the buffer or in flight to the backend.
C2_FlushedBeforeResult ==
  (Finished /\ cancelCalls = 0) =>
    /\ QueuedCount(batch) = 0
    /\ \A i \in Indices : Pending(i) = {}

\* C3: cancel() first called between item k and item k+1, 0 < k < N.
CancelAfterItemK ==
  /\ firstCancel.pc = "loop"
  /\ firstCancel.idx > 0
  /\ firstCancel.idx < Len(reqs)

\* C3: a run cancelled after item k (0 < k < N) ends Cancelled with fewer
\* than N items processed, and once the cancellation has been observed no
\* flush is invoked and no bulk call is sent.
C3_CancelDiscardsPending ==
  [][ /\ (CancelAfterItemK /\ pc' = "done") =>
           (state' = "Cancelled" /\ idx' < Len(reqs'))
      /\ (CancelAfterItemK /\ state = "Cancelled") =>
           /\ finalFlushCalls' = finalFlushCalls
           /\ \A i \in Indices : inflight'[i] \subseteq inflight[i] ]_vars

C3_Witness ==
  /\ Finished
  /\ CancelAfterItemK
  /\ state = "Cancelled"
  /\ idx = 1
  /\ Len(reqs) = 2
  /\ accepted[Doc] = 1
  /\ finalFlushCalls = 0

\* C4: once cancel() has returned the buffer accepts no write and holds no
\* write, and after start() has settled no write reaches the backend.
C4_NoWriteAfterCancel ==
  [][ cancelled =>
        /\ accepted' = accepted
        /\ QueuedCount(batch') = 0
        /\ Finished => backend' = backend ]_vars

\* C5: the counts a never-cancelled run over N files must report when every
\* file read succeeds: the sums over the files whose analysis succeeded.
RECURSIVE SumOver(_, _)
SumOver(rs, counter) ==
  IF rs = << >> THEN 0
  ELSE LET a == analysis[Head(rs).filePath]
       IN  (IF a.kind = "result" THEN a[counter] ELSE 0)
             + SumOver(Tail(rs), counter)

\* C5: a never-cancelled run over N files whose reads succeed ends Completed
\* with File = N and Symbol/Reference counting only the files whose
\* analysis succeeded, whatever analysis requests failed or came back empty.
C5_PartialFailureTolerance ==
  (Finished /\ cancelCalls = 0 /\ walked = "" /\ ~ readFailed) =>
    /\ state = "Completed"
    /\ stats.File = Len(reqs)
    /\ stats.Symbol = SumOver(reqs, "symbols")
    /\ stats.Reference = SumOver(reqs, "references")

C5_Witness ==
  /\ Finished
  /\ cancelCalls = 0
  /\ ~ readFailed
  /\ Len(reqs) = 2
  /\ analysis["a.ts"].kind = "error"
  /\ analysis["b.ts"] = [kind |-> "result", symbols |-> 1, references |-> 1]
  /\ state = "Completed"
  /\ stats = [Symbol |-> 1, Reference |-> 1, File |-> 2]

\* C6: when opening the working copy or walking the tree throws, start()
\* rejects, the run is Failed and the buffer got no index() call.
C6_EnumerationFailureAborts ==
  (Finished /\ walked \in {"openWorkspace", "fileTree"}) =>
    /\ result = "thrown"
    /\ state = "Failed"
    /\ indexCalls = NoCalls

C6_Witness ==
  /\ Finished
  /\ walked = "fileTree"
  /\ result = "thrown"
  /\ state = "Failed"

\* No entry is stored more than once in any collection.
NoDuplicates(b) == \A i \in Indices : \A e \in BagToSet(b[i]) : b[i][e] = 1

\* C7: after two completed runs on the same (repoUri, revision), with every
\* bulk call answered, the backend holds no duplicate entry, and holds what
\* it held after the first run when that run's writes had all been answered.
C7_IdempotentReindex ==
  ( /\ runId = 2
    /\ Finished
    /\ state = "Completed"
    /\ snapshot.completed
    /\ inflight = NoInflight ) =>
    /\ NoDuplicates(backend)
    /\ snapshot.quiet => backend = snapshot.backend

\* The marker documents of a documents collection.
Markers(bag) == { d \in BagToSet(bag) : d.fields \cap ReservedFields # {} }

\* C8: no step deletes a document carrying a reserved field, and when the
\* document deletion of cleanIndex succeeds only such documents are left.
C8_CleanupPreservesMarkers ==
  [][ /\ \A d \in Markers(backend[Doc]) :
           CopiesIn(d, backend'[Doc]) >= CopiesIn(d, backend[Doc])
      /\ (pc = "cleanDocuments" /\ pc' # pc /\ Doc \in cleanDone') =>
           BagToSet(backend'[Doc]) = Markers(backend[Doc]) ]_vars

C8_Witness ==
  /\ pc = "prepareRequests"
  /\ Doc \in cleanDone
  /\ BagToSet(backend[Doc]) = Markers(SeedBackend[Doc])
  /\ Cardinality(BagToSet(backend[Doc])) = 4

\* C9: a run hands no symbol or reference write to the buffer before the
\* cleanup deletions of the symbols and the references have been attempted.
C9_CleanupBeforeWrites ==
  (indexCalls[Sym] + indexCalls[Ref] > 0 \/ Pending(Sym) \cup Pending(Ref) # {})
    => {Sym, Ref} \subseteq cleanAttempted

C9_Witness ==
  /\ indexCalls[Sym] = 1
  /\ indexCalls[Ref] = 1
  /\ Sym \notin cleanDone
  /\ {Sym, Ref} \subseteq cleanAttempted

\* C10: a second cancel() changes nothing of the indexer and its buffer, and
\* a cancel() after start() has settled changes neither the terminal state,
\* the result and the counts, nor the writes queued, in flight or stored.
C10_CancelIdempotent ==
  [][ cancelCalls' = cancelCalls + 1 =>
        /\ cancelCalls > 0 => UNCHANGED progVars
        /\ Finished => UNCHANGED << state, result, stats, batch, inflight, backend >> ]_vars

C10_Witness ==
  /\ cancelCalls = 2
  /\ firstCancel.pc = "done"
  /\ state = "Completed"
  /\ \E i \in Indices : Pending(i) # {}


Terminal == {"Completed", "Cancelled", "Failed"}

\* The states a run can move to from state s: the next one of the lifecycle
\* order, Failed from any state that is not terminal, and nothing from a
\* terminal state.
After(s) ==
  CASE s = "Created" -> {"PreparingIndices", "Failed"}
    [] s = "PreparingIndices" -> {"EnumeratingRequests", "Failed"}
    [] s = "EnumeratingRequests" -> {"Processing", "Failed"}
    [] s = "Processing" -> Terminal
    [] OTHER -> {}

\* C11: the state of a run only moves along Created, PreparingIndices,
\* EnumeratingRequests, Processing and from there to one terminal state,
\* which it never leaves (Failed can follow any earlier state); when start()
\* settles the state is terminal, start() rejects exactly when it is Failed,
\* and the state and the counts it reports do not change afterwards; and
\* when every awaited call is answered, a started run does settle.
C11_Lifecycle ==
  /\ [][ /\ state' # state => state' \in After(state)
         /\ pc' = "done" =>
              /\ state' \in Terminal
              /\ result' = (IF state' = "Failed" THEN "thrown" ELSE "returned")
         /\ Finished => UNCHANGED << state, stats, result >> ]_vars
  /\ (state # "Created") ~> (Finished /\ state \in Terminal)

\* The three terminal states are each reached by a settled run; here the
\* run that failed in its enumeration after a cleanup.
C11_Witness ==
  /\ Finished
  /\ state = "Failed"
  /\ result = "thrown"
  /\ thrown = "enumeration"
  /\ cleanAttempted = Indices


\* The increment processRequest returns for work item k when it returns
\* normally: the lengths of the symbol and reference lists of the answer
\* (nothing for an error or an empty answer) and one file.
Increment(k) ==
  LET a == analysis[reqs[k].filePath]
  IN  [Symbol |-> IF a.kind = "result" THEN a.symbols ELSE 0,
       Reference |-> IF a.kind = "result" THEN a.references ELSE 0,
       File |-> 1]

\* The work items started so far whose processing step returned normally
\* (when no item is in progress).
Returned == (1..idx) \ failedReads

RECURSIVE SumReturned(_, _)
SumReturned(k, counter) ==
  IF k = 0 THEN 0
  ELSE (IF k \in Returned THEN Increment(k)[counter] ELSE 0)
         + SumReturned(k - 1, counter)

\* C12: when start() has settled, each counter of the run's IndexStats is
\* the sum of the increments of the items whose processing step returned
\* normally, a failed item adding nothing; File is the number of those
\* items and is at most the number of enumerated items.
C12_StatsSumReturned ==
  Finished =>
    /\ stats.Symbol = SumReturned(idx, "Symbol")
    /\ stats.Reference = SumReturned(idx, "Reference")
    /\ stats.File = SumReturned(idx, "File")
    /\ stats.File = Cardinality(Returned)
    /\ stats.File <= Len(reqs)

\* The first of two items failed in its file read after its analysis had
\* returned one symbol and one reference; the second returned normally.
C12_Witness ==
  /\ Finished
  /\ idx = 2
  /\ failedReads = {1}
  /\ analysis["a.ts"] = [kind |-> "result", symbols |-> 1, references |-> 1]
  /\ analysis["b.ts"] = [kind |-> "result", symbols |-> 1, references |-> 0]
  /\ stats = [Symbol |-> 1, Reference |-> 0, File |-> 1]


\* The sum over the first k work items of what their analysis returned,
\* whether or not their processing step returned normally.
RECURSIVE SumStarted(_, _)
SumStarted(k, counter) ==
  IF k = 0 THEN 0 ELSE Increment(k)[counter] + SumStarted(k - 1, counter)

\* C13: when start() has settled on a run in which file reads failed, the
\* run has not failed, a never-cancelled run went through every item and
\* is Completed, each failed read costs the File count of its item, and the
\* Symbol and Reference counts still include what the analysis of those
\* items returned.
C13_ReadFailureKeepsCounts ==
  (Finished /\ failedReads # {}) =>
    /\ state # "Failed"
    /\ result = "returned"
    /\ cancelCalls = 0 => (state = "Completed" /\ idx = Len(reqs))
    /\ stats.File = idx - Cardinality(failedReads)
    /\ stats.Symbol = SumStarted(idx, "Symbol")
    /\ stats.Reference = SumStarted(idx, "Reference")


Range(seq) == { seq[k] : k \in 1..Len(seq) }

\* The file documents handed to the documents collection: queued in the
\* buffer, in flight in a bulk call, or stored.
FileDocuments ==
  { d \in Range(batch[Doc])
           \cup UNION { Range(b.body) : b \in inflight[Doc] }
           \cup BagToSet(backend[Doc]) : d.fields = {} }

\* C14: the content of every file document is the link's target string,
\* and not the bytes read through the link, when its path is a symbolic
\* link, and the file's bytes when it is a regular file.
C14_SymlinkContent ==
  \A d \in FileDocuments :
    IF isSymbolicLink(d.path)
    THEN d.content = readLink(d.path) /\ d.content # readFile(d.path)
    ELSE d.content = readFile(d.path)

\* The documents of a regular file and of a symbolic link are both stored.
C14_Witness ==
  /\ \E d \in BagToSet(backend[Doc]) :
       d.path = "b.ts" /\ d.content = readLink("b.ts")
  /\ \E d \in BagToSet(backend[Doc]) :
       d.path = "a.ts" /\ d.content = readFile("a.ts")


\* What the cleanup of a run left of a seeded collection.
CleanQuery(i) ==
  CASE i = Sym -> SymbolCleanQuery
    [] i = Ref -> ReferenceCleanQuery
    [] OTHER -> DocumentCleanQuery

Cleaned(i) ==
  IF i \in cleanDone THEN deleteByQuery(i, SeedBackend[i], CleanQuery(i))
                     ELSE SeedBackend[i]

\* The writes of collection i that are queued or in flight.
Unstored(i) == Range(batch[i]) \cup UNION { Range(b.body) : b \in inflight[i] }

\* When start() has settled on a never-cancelled run whose enumeration and
\* file reads succeeded: Completed, every item counted, every write
\* accepted; and once every bulk call is answered each collection holds
\* what the cleanup left and every accepted write but those of the failed
\* bulk calls.
AtEndOfRun ==
  (Finished /\ cancelCalls = 0 /\ walked = "" /\ failedReads = {}) =>
    /\ state = "Completed"
    /\ result = "returned"
    /\ stats.File = Len(reqs)
    /\ accepted = indexCalls
    /\ (inflight = NoInflight /\ QueuedCount(batch) = 0) =>
         \A i \in Indices :
           BagCardinality(backend[i]) + BagCardinality(lost[i])
             = BagCardinality(Cleaned(i)) + accepted[i]

\* C15: the failure of a bulk call changes nothing of the run (its state,
\* its position, its result, its counts) nor of the buffer, which goes on
\* accepting writes; the writes of the failed call are not sent again and
\* never stored; and the run ends as it would have, Completed when nothing
\* else fails, with exactly those writes missing from the backend.
C15_FlushFailureTolerated ==
  [][ /\ lost' # lost =>
           /\ UNCHANGED << state, pc, thrown, result, stats, batch, batchCancelled >>
           /\ \A i \in Indices : inflight'[i] \subseteq inflight[i]
      /\ \A i \in Indices :
           BagToSet(lost'[i]) \cap (Unstored(i)' \cup BagToSet(backend'[i])) = {}
      /\ AtEndOfRun' ]_vars

\* A bulk call sent by an index() call failed; the run went on, accepted a
\* later write, flushed it, and ended Completed with that write stored.
C15_Witness ==
  /\ Finished
  /\ state = "Completed"
  /\ cancelCalls = 0
  /\ inflight = NoInflight
  /\ lost[Sym] # EmptyBag
  /\ BagCardinality(backend[Doc]) = 4 + Len(reqs)
  /\ Len(reqs) = 2


\* processRequest is suspended at one of its awaits.
InProgress ==
  pc \in { "lspRequest", "indexSymbol", "afterSymbol", "indexReference",
           "afterReference", "readFile", "indexDocument", "afterDocument" }

\* The paths of the first k enumerated work items.
PrefixPaths(k) == { reqs[j].filePath : j \in 1..k }

\* C16: an item is started only from the loop, with no item in progress and
\* the cancellation flag found clear, and it is the next of the enumerated
\* list; the items started and not ended are the one in progress or none;
\* analysis requests and writes only concern the started prefix of the
\* list; and when the loop finds the flag set before an item, no item is
\* started any more and the run is Cancelled and stays so.
C16_SequentialInOrder ==
  [][ /\ idx' # idx =>
           /\ pc = "loop" /\ ~ cancelled
           /\ idx' = idx + 1 /\ idx' <= Len(reqs)
           /\ pc' = "lspRequest"
      /\ idx' - (stats'.File + Cardinality(failedReads'))
           = (IF InProgress' THEN 1 ELSE 0)
      /\ \A f \in AllPaths :
           analysis'[f] # NoOutcome => f \in PrefixPaths(idx)'
      /\ \A i \in Indices : \A w \in Unstored(i)' :
           w.path \in PrefixPaths(idx)'
      /\ (pc = "loop" /\ cancelled /\ idx < Len(reqs) /\ pc' # pc) =>
           (state' = "Cancelled" /\ pc' = "superDone")
      /\ state = "Cancelled" => (idx' = idx /\ state' = "Cancelled") ]_vars

\* cancel() came while the first of two items was in progress: the item was
\* finished, the second one never started, the run is Cancelled.
C16_Witness ==
  /\ Finished
  /\ state = "Cancelled"
  /\ firstCancel = [pc |-> "readFile", idx |-> 1]
  /\ Len(reqs) = 2
  /\ idx = 1
  /\ stats.File = 1
  /\ analysis["b.ts"] = NoOutcome


\* The run has observed the cancellation: the loop found the flag set
\* before an item, or the finally block of start() found it set.
Observed ==
  \/ state = "Cancelled"
  \/ Finished /\ firstCancel.pc \notin {"never", "done"}

\* The continuations a run is suspended before once it has started the
\* schema preparation, the enumeration, an analysis request or a file read.
SuspensionStarts == {"prepareIndex", "prepareRequests", "lspRequest", "readFile"}

\* C17: once the run has observed the cancellation, no step starts a schema
\* preparation, an enumeration, an analysis request or a file read, and no
\* step calls the final flush or sends a bulk call.
C17_NothingStartedAfterObserved ==
  [][ Observed =>
        /\ pc' \in SuspensionStarts => pc' = pc
        /\ finalFlushCalls' = finalFlushCalls
        /\ \A i \in Indices : inflight'[i] \subseteq inflight[i] ]_vars

\* cancel() came while the first item waited for index(); the item went on
\* to its file read, the loop then observed the flag, and the run settled
\* without a flush.
C17_Witness ==
  /\ Finished
  /\ state = "Cancelled"
  /\ firstCancel = [pc |-> "afterSymbol", idx |-> 1]
  /\ accepted[Sym] = 1
  /\ indexCalls[Doc] = 1
  /\ accepted[Doc] = 0
  /\ finalFlushCalls = 0


\* An index() call of the run has been made and has not returned: the run
\* is suspended on it, or a bulk call it waits for is unanswered.
IndexInFlight ==
  \/ pc \in {"afterSymbol", "afterReference", "afterDocument"}
  \/ ~ IndexSettled

\* A bulk call sent by the final flush of the run is unanswered.
FinalFlushInFlight == \E i \in Indices : \E b \in Pending(i) : ~ b.awaited

\* C18: when the finally block of start() calls the final flush, no index()
\* call of the run is in flight, and while a bulk call of the final flush
\* is unanswered none is either.
C18_FlushAfterIndexReturned ==
  [][ /\ finalFlushCalls' # finalFlushCalls => ~ IndexInFlight
      /\ FinalFlushInFlight' => ~ IndexInFlight' ]_vars

\* The final flush is in flight with the document of a.ts, after an index()
\* call of the run had waited for the bulk call that stored its symbol.
C18_Witness ==
  /\ Finished
  /\ finalFlushCalls = 1
  /\ \E b \in Pending(Doc) : ~ b.awaited
  /\ \E e \in BagToSet(backend[Sym]) : e.path = "a.ts"


\* s is an initial part of t.
IsPrefix(s, t) == Len(s) <= Len(t) /\ s = SubSeq(t, 1, Len(s))

CleanOrder == << Sym, Ref, Doc >>

\* C19: the deletions cleanIndex issues are, in this order and each at most
\* once, those of the symbols, the references and the non-marker
\* documents; a deletion, failed or not, is followed by the next one or by
\* the enumeration, rejects nothing and fails nothing; when the
\* enumeration has started all three have been issued whichever failed;
\* and a never-cancelled run without other failures ends Completed.
C19_CleanupBestEffort ==
  [][ /\ IsPrefix(cleanLog', CleanOrder)
      /\ cleanLog' # cleanLog =>
           /\ thrown' = "none" /\ result' = "none" /\ state' \notin Terminal
           /\ pc' = (IF cleanLog' = CleanOrder THEN "prepareRequests"
                     ELSE IF Len(cleanLog') = 1 THEN "cleanReferences"
                     ELSE "cleanDocuments")
      /\ walked' # "none" => cleanLog' = CleanOrder
      /\ (Finished' /\ cancelCalls' = 0 /\ walked' = "" /\ failedReads' = {}) =>
           (state' = "Completed" /\ result' = "returned") ]_vars

\* The deletions of the symbols and of the documents failed, that of the
\* references succeeded, and the run ended Completed.
C19_Witness ==
  /\ Finished
  /\ state = "Completed"
  /\ cleanLog = CleanOrder
  /\ cleanDone = {Ref}
  /\ Len(reqs) = 2


\* C20: every IndexRequest the enumeration of a run for (RepoUri, Revision)
\* emits carries Revision, wherever the head of the repository points.
C20_RequestsAtTargetRevision ==
  \A k \in 1..Len(reqs) : reqs[k].revision = Revision


\* The positions of path p in the walked tree, and in the emitted requests.
TreePositions(p) == { j \in 1..Len(repoTree) : repoTree[j] = p }
RequestPositions(p) == { k \in 1..Len(reqs) : reqs[k].filePath = p }

\* C21: when the enumeration has returned, each path of the tree whose
\* filename gives a language the service supports has exactly one request
\* and no other path has any; the requests follow the order of the tree;
\* and all carry the repository's uri and the working copy's root.
C21_EnumerationFilter ==
  walked = "" =>
    /\ \A p \in AllPaths :
         Cardinality(RequestPositions(p)) =
           (IF /\ TreePositions(p) # {}
               /\ detectLanguageByFilename(p) # ""
               /\ supportLanguage(detectLanguageByFilename(p))
            THEN 1 ELSE 0)
    /\ \A j, k \in 1..Len(reqs) :
         j < k => \E a \in TreePositions(reqs[j].filePath) :
                   \E b \in TreePositions(reqs[k].filePath) : a < b
    /\ \A k \in 1..Len(reqs) :
         reqs[k].repoUri = RepoUri /\ reqs[k].localRepoPath = WorkspaceDir

\* The tree holds a file of an unsupported language and one without a
\* language between two supported files: two requests, in tree order.
C21_Witness ==
  /\ walked = ""
  /\ Len(repoTree) = 4
  /\ Len(reqs) = 2
  /\ reqs[1].filePath = "a.ts"
  /\ reqs[2].filePath = "b.ts"


\* The duplicate-free set of the names of the symbols the analysis of work
\* item k returned.
ExpectedNames(k) ==
  LET a == analysis[reqs[k].filePath]
  IN  IF a.kind = "result" THEN { SymbolName(i) : i \in 1..a.symbols } ELSE {}

\* The index() calls processRequest makes for the one item of the run when
\* its file read succeeds.
ItemCalls ==
  (Sym :> Increment(1).Symbol) @@ (Ref :> Increment(1).Reference) @@ (Doc :> 1)

\* C22: for the one work item of a run, with n symbols and m references
\* returned by the analysis (none on an error or an empty answer): no
\* symbol write is handed over after a reference or document write, the
\* first reference write comes after the n symbol writes, the document
\* write comes after the n symbol and m reference writes and carries the
\* duplicate-free set of the symbols' names as qnames; and when
\* processRequest returns it has made n, m and 1 index() calls and
\* returns {Symbol: n, Reference: m, File: 1}.
C22_ItemWrites ==
  [][ /\ indexCalls'[Sym] # indexCalls[Sym] =>
           (indexCalls[Ref] = 0 /\ indexCalls[Doc] = 0)
      /\ indexCalls'[Ref] # indexCalls[Ref] =>
           (indexCalls[Sym] = Increment(1).Symbol /\ indexCalls[Doc] = 0)
      /\ indexCalls'[Doc] # indexCalls[Doc] =>
           /\ indexCalls[Sym] = Increment(1).Symbol
           /\ indexCalls[Ref] = Increment(1).Reference
           /\ indexCalls[Doc] = 0
           /\ symbolNames = ExpectedNames(1)
      /\ \A d \in FileDocuments' :
           d.path = "a.ts" => d.qnames = ExpectedNames(1)'
      /\ (pc = "afterDocument" /\ pc' = "loop") =>
           /\ indexCalls' = ItemCalls'
           /\ itemStats' = Increment(1)'
           /\ stats' = Increment(1)' ]_vars

\* Two symbols sharing one name were returned: two symbol writes, one
\* document write whose qnames holds the one name, and {2, 0, 1} returned.
C22_Witness ==
  /\ Finished
  /\ analysis["a.ts"] = [kind |-> "result", symbols |-> 2, references |-> 0]
  /\ indexCalls = (Sym :> 2) @@ (Ref :> 0) @@ (Doc :> 1)
  /\ stats = [Symbol |-> 2, Reference |-> 0, File |-> 1]
  /\ \E d \in BagToSet(backend[Doc]) : d.path = "a.ts" /\ d.qnames = {1}


\* The collection a write belongs to, by its shape.
KindOf(w) ==
  IF "content" \in DOMAIN w THEN Doc
  ELSE IF "name" \in DOMAIN w THEN Sym
  ELSE Ref

\* The writes of a set of bulk calls.
RECURSIVE SentBag(_)
SentBag(bulks) ==
  IF bulks = {} THEN EmptyBag
  ELSE LET b == CHOOSE x \in bulks : TRUE
       IN  BagOfSeq(b.body) (+) SentBag(bulks \ {b})

\* The writes of the run stored in collection i.
StoredOfRun(i) ==
  LET new == { e \in BagToSet(backend[i]) : e.path \in PrefixPaths(Len(reqs)) }
  IN  [e \in new |-> backend[i][e]]

\* The writes the buffer accepted for collection i, wherever they are now:
\* queued, in a bulk call in flight, stored, or lost with a failed call.
Handled(i) ==
  BagOfSeq(batch[i]) (+) SentBag(inflight[i]) (+) StoredOfRun(i) (+) lost[i]

\* As long as cancel() has not been called: every accepted write is queued
\* or was sent, once, with the bulk calls of its own collection.
EachWriteOnce ==
  cancelCalls = 0 =>
    \A i \in Indices :
      /\ BagCardinality(Handled(i)) = accepted[i]
      /\ \A w \in BagToSet(Handled(i)) : Handled(i)[w] = 1 /\ KindOf(w) = i

\* C23: without cancel(), every accepted write is queued or was sent once,
\* to its own collection; a step that sends bulk calls, and the final
\* flush, leave nothing queued for any collection; and the number of queued
\* writes never exceeds BatchSize.
C23_BufferDiscipline ==
  [][ cancelCalls' = 0 =>
        /\ EachWriteOnce'
        /\ (\E i \in Indices : ~ (inflight'[i] \subseteq inflight[i])) =>
             batch' = EmptyBatch
        /\ finalFlushCalls' # finalFlushCalls => batch' = EmptyBatch
        /\ QueuedCount(batch') <= BatchSize ]_vars

\* A run over two files where the time threshold can pass: six writes
\* accepted, sent by automatic flushes and the final flush, all stored.
C23_Witness ==
  /\ Finished
  /\ cancelCalls = 0
  /\ "timer" \in unreliable
  /\ inflight = NoInflight
  /\ lost = NoLost
  /\ finalFlushCalls = 1
  /\ accepted = (Sym :> 2) @@ (Ref :> 2) @@ (Doc :> 2)
  /\ \A i \in Indices : BagCardinality(StoredOfRun(i)) = 2


\* C24: whenever no item is in progress, the Symbol and Reference counts of
\* the run, which are the sums of what the items ended so far added, equal
\* the numbers of symbol and reference writes the buffer accepted for
\* those items: each item added what the buffer accepted for it.
C24_CountsMatchAccepted ==
  ~ InProgress =>
    /\ stats.Symbol = accepted[Sym]
    /\ stats.Reference = accepted[Ref]


\* The compatibility rule: with no embeddable every action is kept;
\* otherwise an action bound to an id is kept when it is the embeddable's
\* id, an action bound only to a type when it is the embeddable's type,
\* and an action bound to neither always.
RuleKeeps(action) ==
  \/ ~ embeddable.present
  \/ action.embeddableId # "" /\ action.embeddableId = embeddable.id
  \/ /\ action.embeddableId = ""
     /\ action.embeddableType # ""
     /\ action.embeddableType = embeddable.type
  \/ action.embeddableId = "" /\ action.embeddableType = ""

\* C25: what Trigger.getCompatibleActions returns and what
\* EventEditor.findActions stores are both the actions of the list the
\* compatibility rule keeps, in the order of the list, hence the same.
C25_SameCompatibilityRule ==
  /\ compatibleActions.done =>
       compatibleActions.actions = SelectSeq(allActions, RuleKeeps)
  /\ editorActions.done =>
       editorActions.actions = SelectSeq(allActions, RuleKeeps)
  /\ (compatibleActions.done /\ editorActions.done) =>
       compatibleActions.actions = editorActions.actions

\* For panel-1, a visualization: the action bound to panel-2 and to the
\* visualization type is removed by both, the action bound only to the
\* visualization type is kept by both.
C25_Witness ==
  /\ compatibleActions.done
  /\ editorActions.done
  /\ embeddable = [present |-> TRUE, id |-> "panel-1", type |-> "visualization"]
  /\ allActions =
       << [embeddableId |-> "panel-2", embeddableType |-> "visualization"],
          [embeddableId |-> "", embeddableType |-> "visualization"] >>
  /\ editorActions.actions =
       << [embeddableId |-> "", embeddableType |-> "visualization"] >>

====
